---- MODULE Spec2Model ----
(***************************************************************************)
(* The analysis run of src/app.py (a Streamlit script): two uploaded       *)
(* marker tables are inner-joined on "Marker ID", every joined row is      *)
(* labelled by predict_progeny, the labels are counted and turned into a   *)
(* heterosis score, and the results are shown (metrics, pie chart,         *)
(* per-chromosome bar chart, table, download).                             *)
(*                                                                         *)
(* A DataFrame is a record [columns, rows]; a row is a function from       *)
(* column names to cell values.  A genotype cell is a sequence of          *)
(* one-character strings; the empty sequence is the missing value (NaN):   *)
(* read_csv reads an empty field as NaN, so no genotype is the empty       *)
(* string.  A chromosome or marker cell is a string; "NaN" is the missing  *)
(* value there (read_csv reads the field NaN as missing).                  *)
(*                                                                         *)
(* Every script variable is indexed by the browser session that runs the   *)
(* script: Streamlit executes the script once per session and rerun, each  *)
(* execution with its own names.                                           *)
(***************************************************************************)
EXTENDS Integers, Sequences, FiniteSets, TLC

VARIABLES strain1_name, strain2_name, df1, df2, merged, total_markers,
          hetero_count, homo_count, hetero_percent, homo_percent,
          heterosis_score, chrom_data, emitted, error, pc

vars == <<strain1_name, strain2_name, df1, df2, merged, total_markers,
          hetero_count, homo_count, hetero_percent, homo_percent,
          heterosis_score, chrom_data, emitted, error, pc>>

(***************************************************************************)
(* Bounds of the model.                                                    *)
(***************************************************************************)
\* rows of parent 1's table under Spec
MaxRows1 == 2
\* rows of parent 2's table under Spec
MaxRows2 == 1
\* rows of the merged table under SpecScore
MaxTotal == 10
\* characters of a genotype string under SpecClassify
MaxGenoLen == 3
\* rows of either table under SpecNames
MaxRowsSmall == 1

(***************************************************************************)
(* Values.                                                                 *)
(***************************************************************************)
Sessions == {"s1", "s2"}

NaN == <<>>
NaNChrom == "NaN"

KeyColumn == "Marker ID"
GenotypeColumn == "Genotype"
ChromosomeColumn == "Chromosome"
LabelColumn == "Predicted Progeny"
RequiredColumns == {KeyColumn, GenotypeColumn, ChromosomeColumn}

Heterozygous == "Heterozygous"
Homozygous == "Homozygous"

DefaultName1 == "Parent 1"
DefaultName2 == "Parent 2"

NoFrame == [columns |-> {}, rows |-> <<>>]
Unset == -1
\* a percentage is the exact quotient num/den, or the float NaN
NoPercent == [nan |-> FALSE, num |-> 0, den |-> 1]
NoChromData == [cells |-> <<>>]

(***************************************************************************)
(* parse_genotype: str.split("/") of a present genotype, [] of a missing   *)
(* one.                                                                    *)
(***************************************************************************)
RECURSIVE Split(_, _)
Split(str, sep) ==
    IF \E i \in 1..Len(str) : str[i] = sep
    THEN LET i == CHOOSE k \in 1..Len(str) :
                      /\ str[k] = sep
                      /\ \A j \in 1..(k - 1) : str[j] # sep
         IN <<SubSeq(str, 1, i - 1)>> \o Split(SubSeq(str, i + 1, Len(str)), sep)
    ELSE <<str>>

\* mutant: the missing genotype is split like a string ("".split("/") = [""])
parse_genotype_without_isna(geno) == Split(geno, "/")

parse_genotype(geno) ==
    IF geno = NaN THEN <<>> ELSE Split(geno, "/")

ToSet(seq) == {seq[i] : i \in 1..Len(seq)}

(***************************************************************************)
(* pd.merge(df1, df2, on="Marker ID", suffixes=(ls, rs)): the inner join.  *)
(* A column other than the key that both frames hold gets the frame's      *)
(* suffix; any other column keeps its name.                                *)
(***************************************************************************)
Suffix(name) == "_" \o name

Overlap(l, r) == (l.columns \cap r.columns) \ {KeyColumn}

Renamed(c, overlap, suffix) == IF c \in overlap THEN c \o suffix ELSE c

MergedColumns(l, r, ls, rs) ==
    {KeyColumn}
        \cup {Renamed(c, Overlap(l, r), ls) : c \in l.columns \ {KeyColumn}}
        \cup {Renamed(c, Overlap(l, r), rs) : c \in r.columns \ {KeyColumn}}

\* two columns of the result would carry one name
HasDuplicateColumns(l, r, ls, rs) ==
    Cardinality(MergedColumns(l, r, ls, rs))
        # 1 + Cardinality(l.columns \ {KeyColumn}) + Cardinality(r.columns \ {KeyColumn})

JoinRow(r1, r2, overlap, ls, rs) ==
    LET left == DOMAIN r1 \ {KeyColumn}
        right == DOMAIN r2 \ {KeyColumn}
        names == {KeyColumn} \cup {Renamed(c, overlap, ls) : c \in left}
                             \cup {Renamed(c, overlap, rs) : c \in right}
    IN [m \in names |->
            IF m = KeyColumn THEN r1[KeyColumn]
            ELSE IF \E c \in left : Renamed(c, overlap, ls) = m
                 THEN r1[CHOOSE c \in left : Renamed(c, overlap, ls) = m]
                 ELSE r2[CHOOSE c \in right : Renamed(c, overlap, rs) = m]]

\* the rows of rows2 that match r1 on the key, each joined to r1, in order
RECURSIVE Matches(_, _, _, _, _)
Matches(r1, rows2, overlap, ls, rs) ==
    IF rows2 = <<>> THEN <<>>
    ELSE (IF Head(rows2)[KeyColumn] = r1[KeyColumn]
          THEN <<JoinRow(r1, Head(rows2), overlap, ls, rs)>>
          ELSE <<>>)
         \o Matches(r1, Tail(rows2), overlap, ls, rs)

\* mutant: a marker ID repeated in parent 1's table is joined once
RECURSIVE MergeRowsDistinctKeys(_, _, _, _, _)
MergeRowsDistinctKeys(rows1, rows2, overlap, ls, rs) ==
    IF rows1 = <<>> THEN <<>>
    ELSE LET n == Len(rows1)
             front == SubSeq(rows1, 1, n - 1)
         IN MergeRowsDistinctKeys(front, rows2, overlap, ls, rs)
            \o (IF \E j \in 1..(n - 1) : front[j][KeyColumn] = rows1[n][KeyColumn]
                THEN <<>>
                ELSE Matches(rows1[n], rows2, overlap, ls, rs))

RECURSIVE MergeRows(_, _, _, _, _)
MergeRows(rows1, rows2, overlap, ls, rs) ==
    IF rows1 = <<>> THEN <<>>
    ELSE Matches(Head(rows1), rows2, overlap, ls, rs)
         \o MergeRows(Tail(rows1), rows2, overlap, ls, rs)

pd_merge(l, r, ls, rs) ==
    [columns |-> MergedColumns(l, r, ls, rs),
     rows |-> MergeRows(l.rows, r.rows, Overlap(l, r), ls, rs)]

(***************************************************************************)
(* predict_progeny and merged.apply(predict_progeny, axis=1).              *)
(***************************************************************************)
\* mutant: a missing genotype gets a third label
ClassifySetsUnknown(alleles_p1, alleles_p2) ==
    IF alleles_p1 = {} \/ alleles_p2 = {} THEN "Unknown"
    ELSE IF alleles_p1 \cap alleles_p2 = {} THEN Heterozygous
    ELSE IF Cardinality(alleles_p1 \cup alleles_p2) > 1 THEN Heterozygous
    ELSE Homozygous

\* mutant: the second test looks at parent 1's alleles only
ClassifySetsParent1(alleles_p1, alleles_p2) ==
    IF alleles_p1 \cap alleles_p2 = {} THEN Heterozygous
    ELSE IF Cardinality(alleles_p1) > 1 THEN Heterozygous
    ELSE Homozygous

ClassifySets(alleles_p1, alleles_p2) ==
    LET shared_alleles == alleles_p1 \cap alleles_p2
    IN IF shared_alleles = {} THEN Heterozygous
       ELSE IF Cardinality(alleles_p1 \cup alleles_p2) > 1 THEN Heterozygous
       ELSE Homozygous

predict_progeny(row, n1, n2) ==
    ClassifySets(ToSet(parse_genotype(row[GenotypeColumn \o Suffix(n1)])),
                 ToSet(parse_genotype(row[GenotypeColumn \o Suffix(n2)])))

ApplyPredict(frame, n1, n2) ==
    [columns |-> frame.columns \cup {LabelColumn},
     rows |-> [i \in 1..Len(frame.rows) |->
                  frame.rows[i] @@ (LabelColumn :> predict_progeny(frame.rows[i], n1, n2))]]

(***************************************************************************)
(* The summary: counts, percentages, score.                                *)
(***************************************************************************)
CountLabel(frame, label) ==
    Cardinality({i \in 1..Len(frame.rows) : frame.rows[i][LabelColumn] = label})

\* (count / total) * 100 on a numpy integer count: NaN when total is 0
Percent(count, total) ==
    IF total = 0 THEN [nan |-> TRUE, num |-> 0, den |-> 1]
    ELSE [nan |-> FALSE, num |-> count * 100, den |-> total]

\* mutant: p >= c
GreaterOrEqual(p, c) == ~p.nan /\ p.num >= c * p.den

\* p > c; every comparison with NaN is false
GreaterThan(p, c) == ~p.nan /\ p.num > c * p.den

HighThreshold == 75
MediumThreshold == 40

Score(percent) ==
    IF GreaterThan(percent, HighThreshold) THEN "High"
    ELSE IF GreaterThan(percent, MediumThreshold) THEN "Medium"
    ELSE "Low"

(***************************************************************************)
(* merged.groupby([chromosome column, label]).size().unstack(fill_value=0) *)
(* groupby drops the rows whose key is missing (dropna=True, the default). *)
(***************************************************************************)
GroupBySize(frame, chromColumn) ==
    LET rows == frame.rows
        kept == {i \in 1..Len(rows) : rows[i][chromColumn] # NaNChrom}
        chroms == {rows[i][chromColumn] : i \in kept}
        labels == {rows[i][LabelColumn] : i \in kept}
    IN [cells |-> [p \in chroms \X labels |->
                      Cardinality({i \in kept : /\ rows[i][chromColumn] = p[1]
                                                /\ rows[i][LabelColumn] = p[2]})]]

(***************************************************************************)
(* The run of the script, statement group by statement group.  pc[s] is    *)
(* the statement group session s executes next.  An exception ends the run *)
(* ("crashed"): Streamlit shows the traceback below what was shown so far. *)
(***************************************************************************)
inputs == <<strain1_name, strain2_name, df1, df2>>
summaryVars == <<total_markers, hetero_count, homo_count, hetero_percent,
                 homo_percent, heterosis_score>>

GoTo(s, next) == pc' = [pc EXCEPT ![s] = next] /\ error' = error

Raise(s, e) ==
    /\ pc' = [pc EXCEPT ![s] = "crashed"]
    /\ error' = [error EXCEPT ![s] = e]

\* what merge does with suffixes that give two columns one name: pandas 2
\* raises MergeError; earlier versions return the frame, and the first
\* row[...] lookup of a doubled column then fails in predict_progeny
DuplicateColumnErrors == {"MergeError", "ValueError"}

\* line 99
Merge(s) ==
    /\ pc[s] = "merge"
    /\ LET ls == Suffix(strain1_name[s])
           rs == Suffix(strain2_name[s])
       IN IF KeyColumn \notin df1[s].columns \/ KeyColumn \notin df2[s].columns
          THEN Raise(s, "KeyError") /\ merged' = merged
          ELSE IF HasDuplicateColumns(df1[s], df2[s], ls, rs)
          THEN /\ \E e \in DuplicateColumnErrors : Raise(s, e)
               /\ merged' = merged
          ELSE /\ merged' = [merged EXCEPT ![s] = pd_merge(df1[s], df2[s], ls, rs)]
               /\ GoTo(s, "apply")
    /\ UNCHANGED <<inputs, summaryVars, chrom_data, emitted>>

\* apply on a frame without rows calls predict_progeny on no row.  pandas
\* tries it on a row of NaN (before 1.1: on an empty Series, a KeyError).
\* When that call returns a label the new column is empty; when it raises,
\* apply returns a copy of the frame, and assigning a frame as one column
\* succeeds only if the frame has a single column.
EmptyApplyOutcomes(frame, n1, n2) ==
    IF /\ GenotypeColumn \o Suffix(n1) \in frame.columns
       /\ GenotypeColumn \o Suffix(n2) \in frame.columns
    THEN {"labelled", "ValueError"}
    ELSE IF Cardinality(frame.columns) = 1 THEN {"labelled"}
    ELSE {"ValueError"}

\* lines 101-113
Apply(s) ==
    /\ pc[s] = "apply"
    /\ LET n1 == strain1_name[s]
           n2 == strain2_name[s]
       IN IF Len(merged[s].rows) = 0
          THEN \E o \in EmptyApplyOutcomes(merged[s], n1, n2) :
                  IF o = "labelled"
                  THEN /\ merged' = [merged EXCEPT ![s] = ApplyPredict(@, n1, n2)]
                       /\ GoTo(s, "summary")
                  ELSE Raise(s, o) /\ merged' = merged
          ELSE IF \/ GenotypeColumn \o Suffix(n1) \notin merged[s].columns
                  \/ GenotypeColumn \o Suffix(n2) \notin merged[s].columns
          THEN Raise(s, "KeyError") /\ merged' = merged
          ELSE /\ merged' = [merged EXCEPT ![s] = ApplyPredict(@, n1, n2)]
               /\ GoTo(s, "summary")
    /\ UNCHANGED <<inputs, summaryVars, chrom_data, emitted>>

\* mutant: the counts add to what the session's previous run left
SummaryAccumulating(s) ==
    /\ pc[s] = "summary"
    /\ LET carried(v) == IF v = Unset THEN 0 ELSE v
           total == carried(total_markers[s]) + Len(merged[s].rows)
           hetero == carried(hetero_count[s]) + CountLabel(merged[s], Heterozygous)
           homo == carried(homo_count[s]) + CountLabel(merged[s], Homozygous)
       IN /\ total_markers' = [total_markers EXCEPT ![s] = total]
          /\ hetero_count' = [hetero_count EXCEPT ![s] = hetero]
          /\ homo_count' = [homo_count EXCEPT ![s] = homo]
          /\ hetero_percent' = [hetero_percent EXCEPT ![s] = Percent(hetero, total)]
          /\ homo_percent' = [homo_percent EXCEPT ![s] = Percent(homo, total)]
          /\ heterosis_score' = [heterosis_score EXCEPT ![s] = Score(Percent(hetero, total))]
    /\ emitted' = [emitted EXCEPT ![s] = @ \cup {"summary"}]
    /\ GoTo(s, "pie")
    /\ UNCHANGED <<inputs, merged, chrom_data>>

\* lines 115-140: the metadata columns (not modelled: no later statement
\* reads them), the counts, the percentages, the score, the four metrics
Summary(s) ==
    /\ pc[s] = "summary"
    /\ LET total == Len(merged[s].rows)
           hetero == CountLabel(merged[s], Heterozygous)
           homo == CountLabel(merged[s], Homozygous)
       IN /\ total_markers' = [total_markers EXCEPT ![s] = total]
          /\ hetero_count' = [hetero_count EXCEPT ![s] = hetero]
          /\ homo_count' = [homo_count EXCEPT ![s] = homo]
          /\ hetero_percent' = [hetero_percent EXCEPT ![s] = Percent(hetero, total)]
          /\ homo_percent' = [homo_percent EXCEPT ![s] = Percent(homo, total)]
          /\ heterosis_score' = [heterosis_score EXCEPT ![s] = Score(Percent(hetero, total))]
    /\ emitted' = [emitted EXCEPT ![s] = @ \cup {"summary"}]
    /\ GoTo(s, "pie")
    /\ UNCHANGED <<inputs, merged, chrom_data>>

\* ax.pie([0, 0]) divides by the sum 0; matplotlib draws NaN wedges or
\* raises ValueError, depending on its version
EmptyPieOutcomes == {"drawn", "ValueError"}

\* lines 142-147
PieChart(s) ==
    /\ pc[s] = "pie"
    /\ IF hetero_count[s] + homo_count[s] = 0
       THEN \E o \in EmptyPieOutcomes :
               IF o = "drawn"
               THEN /\ emitted' = [emitted EXCEPT ![s] = @ \cup {"pie"}]
                    /\ GoTo(s, "chromosomes")
               ELSE Raise(s, o) /\ emitted' = emitted
       ELSE /\ emitted' = [emitted EXCEPT ![s] = @ \cup {"pie"}]
            /\ GoTo(s, "chromosomes")
    /\ UNCHANGED <<inputs, merged, summaryVars, chrom_data>>

\* lines 149-158: the grouping, then the bar chart; DataFrame.plot raises
\* TypeError ("no numeric data to plot") on a frame without columns
ChromosomeChart(s) ==
    /\ pc[s] = "chromosomes"
    /\ LET chromColumn == ChromosomeColumn \o Suffix(strain1_name[s])
       IN IF chromColumn \notin merged[s].columns
          THEN /\ Raise(s, "KeyError")
               /\ UNCHANGED <<chrom_data, emitted>>
          ELSE /\ chrom_data' = [chrom_data EXCEPT ![s] = GroupBySize(merged[s], chromColumn)]
               /\ IF DOMAIN GroupBySize(merged[s], chromColumn).cells = {}
                  THEN Raise(s, "TypeError") /\ emitted' = emitted
                  ELSE /\ emitted' = [emitted EXCEPT ![s] = @ \cup {"bar"}]
                       /\ GoTo(s, "export")
    /\ UNCHANGED <<inputs, merged, summaryVars>>

\* lines 160-175
Export(s) ==
    /\ pc[s] = "export"
    /\ emitted' = [emitted EXCEPT ![s] = @ \cup {"table", "download"}]
    /\ GoTo(s, "done")
    /\ UNCHANGED <<inputs, merged, summaryVars, chrom_data>>

Step(s) ==
    \/ Merge(s)
    \/ Apply(s)
    \/ Summary(s)
    \/ PieChart(s)
    \/ ChromosomeChart(s)
    \/ Export(s)

Next == \E s \in Sessions : Step(s)

(***************************************************************************)
(* Inputs: the uploaded tables (read_csv) and the two strain names.        *)
(***************************************************************************)
MarkerIds == {"M1", "M2"}
Genotypes == {NaN, <<"A", "/", "A">>, <<"A", "/", "T">>}
\* parent 1's chromosome cells; parent 2's are never read by the script
Chromosomes1 == {NaNChrom, "1", "2"}
Chromosomes2 == {"1"}

InputRow(id, geno, chrom) ==
    (KeyColumn :> id) @@ (GenotypeColumn :> geno) @@ (ChromosomeColumn :> chrom)

Rows1 == {InputRow(id, g, c) : id \in MarkerIds, g \in Genotypes, c \in Chromosomes1}
Rows2 == {InputRow(id, g, c) : id \in MarkerIds, g \in Genotypes, c \in Chromosomes2}

SeqsUpTo(S, n) == UNION {[1..k -> S] : k \in 0..n}

\* the frame read from a CSV file that holds the columns cols of the rows
Frame(cols, rows) ==
    [columns |-> cols,
     rows |-> [i \in 1..Len(rows) |-> [c \in cols |-> rows[i][c]]]]

\* session "s1" has both files uploaded and starts its run; every other
\* session has none (line 177) and stays idle
Start(t1, t2, n1, n2) ==
    /\ strain1_name = [s \in Sessions |-> IF s = "s1" THEN n1 ELSE DefaultName1]
    /\ strain2_name = [s \in Sessions |-> IF s = "s1" THEN n2 ELSE DefaultName2]
    /\ df1 = [s \in Sessions |-> IF s = "s1" THEN t1 ELSE NoFrame]
    /\ df2 = [s \in Sessions |-> IF s = "s1" THEN t2 ELSE NoFrame]
    /\ merged = [s \in Sessions |-> NoFrame]
    /\ total_markers = [s \in Sessions |-> Unset]
    /\ hetero_count = [s \in Sessions |-> Unset]
    /\ homo_count = [s \in Sessions |-> Unset]
    /\ hetero_percent = [s \in Sessions |-> NoPercent]
    /\ homo_percent = [s \in Sessions |-> NoPercent]
    /\ heterosis_score = [s \in Sessions |-> ""]
    /\ chrom_data = [s \in Sessions |-> NoChromData]
    /\ emitted = [s \in Sessions |-> {}]
    /\ error = [s \in Sessions |-> ""]
    /\ pc = [s \in Sessions |-> IF s = "s1" THEN "merge" ELSE "idle"]

\* well-formed tables of every shape up to the row bounds, default names
Init ==
    \E rows1 \in SeqsUpTo(Rows1, MaxRows1), rows2 \in SeqsUpTo(Rows2, MaxRows2) :
        Start(Frame(RequiredColumns, rows1), Frame(RequiredColumns, rows2),
              DefaultName1, DefaultName2)

Spec == Init /\ [][Next]_vars

(***************************************************************************)
(* SpecScore: one marker, parent 2 homozygous A/A, parent 1 with hetero    *)
(* rows A/T followed by homo rows A/A: every count 0 <= hetero <= total    *)
(* up to MaxTotal.                                                         *)
(***************************************************************************)
Repeat(x, n) == [i \in 1..n |-> x]

InitScore ==
    \E total \in 0..MaxTotal :
        \E hetero \in 0..total :
            Start(Frame(RequiredColumns,
                        Repeat(InputRow("M1", <<"A", "/", "T">>, "1"), hetero)
                            \o Repeat(InputRow("M1", <<"A", "/", "A">>, "1"), total - hetero)),
                  Frame(RequiredColumns, <<InputRow("M1", <<"A", "/", "A">>, "1")>>),
                  DefaultName1, DefaultName2)

SpecScore == InitScore /\ [][Next]_vars

(***************************************************************************)
(* SpecClassify: one marker in both tables, the two genotypes any string   *)
(* over A, T and / of up to MaxGenoLen characters, or missing.             *)
(***************************************************************************)
GenotypeChars == {"A", "T", "/"}
GenotypeStrings == SeqsUpTo(GenotypeChars, MaxGenoLen)

InitClassify ==
    \E g1 \in GenotypeStrings, g2 \in GenotypeStrings :
        Start(Frame(RequiredColumns, <<InputRow("M1", g1, "1")>>),
              Frame(RequiredColumns, <<InputRow("M1", g2, "1")>>),
              DefaultName1, DefaultName2)

SpecClassify == InitClassify /\ [][Next]_vars

(***************************************************************************)
(* SpecSchema: both tables hold one row of marker M1 and any subset of the  *)
(* required columns.                                                       *)
(***************************************************************************)
InitSchema ==
    \E cols1 \in SUBSET RequiredColumns, cols2 \in SUBSET RequiredColumns :
        \E g1 \in Genotypes, g2 \in Genotypes, c1 \in Chromosomes1, c2 \in Chromosomes2 :
            Start(Frame(cols1, <<InputRow("M1", g1, c1)>>),
                  Frame(cols2, <<InputRow("M1", g2, c2)>>),
                  DefaultName1, DefaultName2)

SpecSchema == InitSchema /\ [][Next]_vars

(***************************************************************************)
(* SpecNames: well-formed tables, any two strain names (lines 77, 79).     *)
(***************************************************************************)
Names == {DefaultName1, DefaultName2, ""}

InitNames ==
    \E n1 \in Names, n2 \in Names :
        \E rows1 \in SeqsUpTo(Rows1, MaxRowsSmall), rows2 \in SeqsUpTo(Rows2, MaxRowsSmall) :
            Start(Frame(RequiredColumns, rows1), Frame(RequiredColumns, rows2), n1, n2)

SpecNames == InitNames /\ [][Next]_vars

(***************************************************************************)
(* SpecSessions: two browser sessions, each uploading files and rerunning  *)
(* the script any number of times, their statement groups interleaved.     *)
(* The values a run left in a script variable stay there until the next    *)
(* run of the session assigns the variable.                                *)
(***************************************************************************)
SessionFrames1 ==
    {Frame(RequiredColumns, <<InputRow("M1", <<"A", "/", "A">>, "1")>>),
     Frame(RequiredColumns, <<InputRow("M1", <<"A", "/", "T">>, "2")>>),
     Frame(RequiredColumns, <<InputRow("M1", <<"A", "/", "A">>, "1"),
                              InputRow("M1", NaN, NaNChrom)>>)}
SessionFrames2 ==
    {Frame(RequiredColumns, <<InputRow("M1", <<"A", "/", "A">>, "1")>>),
     Frame(RequiredColumns, <<InputRow("M2", <<"A", "/", "A">>, "1")>>)}

\* lines 74-97: the widgets return the session's names and files, and the
\* script runs from the top; the page is drawn anew
Upload(s) ==
    /\ pc[s] \in {"idle", "done", "crashed"}
    /\ \E t1 \in SessionFrames1, t2 \in SessionFrames2 :
          /\ df1' = [df1 EXCEPT ![s] = t1]
          /\ df2' = [df2 EXCEPT ![s] = t2]
    /\ pc' = [pc EXCEPT ![s] = "merge"]
    /\ error' = [error EXCEPT ![s] = ""]
    /\ emitted' = [emitted EXCEPT ![s] = {}]
    /\ UNCHANGED <<strain1_name, strain2_name, merged, summaryVars, chrom_data>>

InitSessions ==
    /\ strain1_name = [s \in Sessions |-> DefaultName1]
    /\ strain2_name = [s \in Sessions |-> DefaultName2]
    /\ df1 = [s \in Sessions |-> NoFrame]
    /\ df2 = [s \in Sessions |-> NoFrame]
    /\ merged = [s \in Sessions |-> NoFrame]
    /\ total_markers = [s \in Sessions |-> Unset]
    /\ hetero_count = [s \in Sessions |-> Unset]
    /\ homo_count = [s \in Sessions |-> Unset]
    /\ hetero_percent = [s \in Sessions |-> NoPercent]
    /\ homo_percent = [s \in Sessions |-> NoPercent]
    /\ heterosis_score = [s \in Sessions |-> ""]
    /\ chrom_data = [s \in Sessions |-> NoChromData]
    /\ emitted = [s \in Sessions |-> {}]
    /\ error = [s \in Sessions |-> ""]
    /\ pc = [s \in Sessions |-> "idle"]

NextSessions == \E s \in Sessions : Step(s) \/ Upload(s)

SpecSessions == InitSessions /\ [][NextSessions]_vars

(***************************************************************************)
(* Properties.                                                             *)
(***************************************************************************)
AfterMerge == {"apply", "summary", "pie", "chromosomes", "export", "done"}
AfterApply == {"summary", "pie", "chromosomes", "export", "done"}
AfterSummary == {"pie", "chromosomes", "export", "done"}

\* without reruns a script variable holds a value exactly when its
\* statement has run, also in a run that crashed later
SummaryComputed(s) == total_markers[s] # Unset
ChromDataComputed(s) ==
    pc[s] \in {"export", "done"} \/ (pc[s] = "crashed" /\ error[s] = "TypeError")

\* the sum of the cells of a chromosome distribution
RECURSIVE SumCells(_, _)
SumCells(cells, keys) ==
    IF keys = {} THEN 0
    ELSE LET k == CHOOSE x \in keys : TRUE
         IN cells[k] + SumCells(cells, keys \ {k})

CellTotal(data) == SumCells(data.cells, DOMAIN data.cells)

CountId(rows, m) == Cardinality({i \in 1..Len(rows) : rows[i][KeyColumn] = m})

\* the run's results as a function of its inputs
Classified(t1, t2, n1, n2) ==
    ApplyPredict(pd_merge(t1, t2, Suffix(n1), Suffix(n2)), n1, n2)

Analysis(t1, t2, n1, n2) ==
    LET table == Classified(t1, t2, n1, n2)
        total == Len(table.rows)
        hetero == CountLabel(table, Heterozygous)
        homo == CountLabel(table, Homozygous)
    IN [total |-> total, hetero |-> hetero, homo |-> homo,
        hetero_percent |-> Percent(hetero, total),
        homo_percent |-> Percent(homo, total),
        score |-> Score(Percent(hetero, total))]

\* the '/'-separated tokens of a genotype, stated without Split: the
\* substrings between two neighbouring separators or ends; none when missing
Tokens(g) ==
    IF g = NaN THEN {}
    ELSE {SubSeq(g, p[1], p[2]) :
            p \in {q \in (1..(Len(g) + 1)) \X (0..Len(g)) :
                      /\ q[2] >= q[1] - 1
                      /\ (q[1] = 1 \/ g[q[1] - 1] = "/")
                      /\ (q[2] = Len(g) \/ g[q[2] + 1] = "/")
                      /\ \A k \in q[1]..q[2] : g[k] # "/"}}

\* C1: with A and B the token sets of the two parents' genotypes (empty for
\* a missing genotype), the label of the joined row is Heterozygous when A
\* and B are disjoint, else Heterozygous when A \cup B has more than one
\* element, else Homozygous; a missing genotype gives Heterozygous, and
\* Homozygous only comes from equal one-element sets.
C1_Classification ==
    \A s \in Sessions :
        (pc[s] \in AfterApply /\ Len(df1[s].rows) = 1 /\ Len(df2[s].rows) = 1) =>
            LET g1 == df1[s].rows[1][GenotypeColumn]
                g2 == df2[s].rows[1][GenotypeColumn]
                A == Tokens(g1)
                B == Tokens(g2)
                label == merged[s].rows[1][LabelColumn]
            IN /\ Len(merged[s].rows) = 1
               /\ (A \cap B = {}) => label = Heterozygous
               /\ (A \cap B # {} /\ Cardinality(A \cup B) > 1) => label = Heterozygous
               /\ (A \cap B # {} /\ Cardinality(A \cup B) <= 1) => label = Homozygous
               /\ (g1 = NaN \/ g2 = NaN) => label = Heterozygous
               /\ label = Homozygous => (A = B /\ Cardinality(A) = 1)

C1_Witness ==
    /\ pc["s1"] = "done"
    /\ df1["s1"].rows[1][GenotypeColumn] = <<"A", "/", "A">>
    /\ df2["s1"].rows[1][GenotypeColumn] = <<"A">>
    /\ merged["s1"].rows[1][LabelColumn] = Homozygous

\* C2: for every marker ID m the merged table holds (rows of parent 1 with
\* m) times (rows of parent 2 with m) rows with ID m.
C2_InnerJoinCounts ==
    \A s \in Sessions :
        pc[s] \in AfterMerge =>
            \A m \in MarkerIds :
                CountId(merged[s].rows, m)
                    = CountId(df1[s].rows, m) * CountId(df2[s].rows, m)

C2_Witness ==
    /\ pc["s1"] = "apply"
    /\ CountId(df1["s1"].rows, "M1") = 2
    /\ CountId(df2["s1"].rows, "M1") = 1
    /\ CountId(merged["s1"].rows, "M1") = 2

\* C3: once the summary is computed, hetero_count + homo_count =
\* total_markers = the number of merged rows, and every merged row is
\* labelled Heterozygous or Homozygous.
C3_CountConservation ==
    \A s \in Sessions :
        SummaryComputed(s) =>
            /\ hetero_count[s] + homo_count[s] = total_markers[s]
            /\ total_markers[s] = Len(merged[s].rows)
            /\ \A i \in 1..Len(merged[s].rows) :
                  merged[s].rows[i][LabelColumn] \in {Heterozygous, Homozygous}

C3_Witness ==
    /\ pc["s1"] = "done"
    /\ hetero_count["s1"] = 1
    /\ homo_count["s1"] = 1
    /\ \E i \in 1..Len(df1["s1"].rows) : df1["s1"].rows[i][GenotypeColumn] = NaN

\* C4: with total > 0 the score is High exactly when 100*hetero > 75*total,
\* Medium exactly when 40*total < 100*hetero <= 75*total, Low exactly when
\* 100*hetero <= 40*total.
C4_ScoreThresholds ==
    \A s \in Sessions :
        (pc[s] \in AfterSummary /\ total_markers[s] > 0) =>
            LET h == 100 * hetero_count[s]
                t == total_markers[s]
            IN /\ heterosis_score[s] \in {"High", "Medium", "Low"}
               /\ heterosis_score[s] = "High" <=> h > 75 * t
               /\ heterosis_score[s] = "Medium" <=> (40 * t < h /\ h <= 75 * t)
               /\ heterosis_score[s] = "Low" <=> h <= 40 * t

C4_Witness ==
    /\ pc["s1"] = "done"
    /\ total_markers["s1"] = 4
    /\ hetero_count["s1"] = 3
    /\ heterosis_score["s1"] = "Medium"

\* C5 (as claimed): the cells of the chromosome distribution add up to
\* total_markers, also when parent 1's chromosome is missing on some row.
C5_ChromosomeTotal ==
    \A s \in Sessions :
        ChromDataComputed(s) => CellTotal(chrom_data[s]) = total_markers[s]

\* C6 (as claimed): a run on a table that lacks a required column shows no
\* result at all and does not complete.
C6_SchemaFailureEmitsNothing ==
    \A s \in Sessions :
        (pc[s] # "idle" /\ ~(RequiredColumns \subseteq df1[s].columns
                             /\ RequiredColumns \subseteq df2[s].columns)) =>
            emitted[s] = {} /\ pc[s] # "done"

\* C7 (as claimed): when the two tables share no marker ID the run does not
\* crash and picks no score from an undefined percentage.  Stated over the
\* runs that have computed their summary (lines 121-133) on zero rows.
C7_EmptyJoinHandled ==
    \A s \in Sessions :
        (SummaryComputed(s)
            /\ \A i \in 1..Len(df1[s].rows), j \in 1..Len(df2[s].rows) :
                  df1[s].rows[i][KeyColumn] # df2[s].rows[j][KeyColumn]) =>
            /\ total_markers[s] = 0
            /\ pc[s] # "crashed"
            /\ ~(hetero_percent[s].nan /\ heterosis_score[s] # "")

\* C8: the label of a row is the label with the two genotypes exchanged,
\* and the counts and the score are those of the run on the exchanged
\* tables.
C8_OrderIndependent ==
    \A s \in Sessions :
        SummaryComputed(s) =>
            LET n1 == strain1_name[s]
                n2 == strain2_name[s]
                swapped == Analysis(df2[s], df1[s], n1, n2)
            IN /\ hetero_count[s] = swapped.hetero
               /\ homo_count[s] = swapped.homo
               /\ heterosis_score[s] = swapped.score
               /\ \A i \in 1..Len(merged[s].rows) :
                     merged[s].rows[i][LabelColumn]
                         = ClassifySets(
                               ToSet(parse_genotype(merged[s].rows[i][GenotypeColumn \o Suffix(n2)])),
                               ToSet(parse_genotype(merged[s].rows[i][GenotypeColumn \o Suffix(n1)])))

C8_Witness ==
    /\ pc["s1"] = "done"
    /\ hetero_count["s1"] = 1
    /\ homo_count["s1"] = 1
    /\ \E i \in 1..Len(merged["s1"].rows) :
          /\ merged["s1"].rows[i][GenotypeColumn \o Suffix(DefaultName1)] = <<"A", "/", "T">>
          /\ merged["s1"].rows[i][GenotypeColumn \o Suffix(DefaultName2)] = <<"A", "/", "A">>

\* C9 (as claimed): whatever the two strain names, a run on tables that
\* share a marker ends with the labels, counts and score of the run under
\* the default names.
C9_NamesDoNotMatter ==
    \A s \in Sessions :
        (pc[s] \in {"done", "crashed"}
            /\ \E i \in 1..Len(df1[s].rows), j \in 1..Len(df2[s].rows) :
                  df1[s].rows[i][KeyColumn] = df2[s].rows[j][KeyColumn]) =>
            LET ref == Analysis(df1[s], df2[s], DefaultName1, DefaultName2)
                table == Classified(df1[s], df2[s], DefaultName1, DefaultName2)
            IN /\ SummaryComputed(s)
               /\ hetero_count[s] = ref.hetero
               /\ homo_count[s] = ref.homo
               /\ heterosis_score[s] = ref.score
               /\ Len(merged[s].rows) = Len(table.rows)
               /\ \A i \in 1..Len(table.rows) :
                     merged[s].rows[i][LabelColumn] = table.rows[i][LabelColumn]

====
